---------------------------- MODULE Spec2Model ----------------------------
(***************************************************************************)
(* Model of the 3D analytical sinogram builder (buildSino3D_core and       *)
(* buildSino3D_core_single).                                               *)
(*                                                                         *)
(* C `float` values are modelled as fixed-point integers counting units    *)
(* of 1/FQ, extended with the three IEEE special values +Inf, -Inf and NaN *)
(* (the code produces them: 1/0 when a slice lies exactly on the edge of   *)
(* a primitive, x/sin(0) in the rectangle kernel).  Every arithmetic       *)
(* operator rounds to the nearest unit, as a float operation rounds to     *)
(* the nearest float.  Quantities below 1/FQ (EPS, cosf(pi/2) = -4.4e-8)   *)
(* are below the resolution; the angle sets used keep the rectangle        *)
(* kernel away from a relative angle of 90 degrees for that reason.        *)
(***************************************************************************)
EXTENDS Integers, Sequences, FiniteSets, TLC

\* ------------------------------------------------------------------------
\* float arithmetic
\* ------------------------------------------------------------------------

\* one unit of the fixed-point representation: the float 1.0f
FQ == 2^8

PInf == 2^30
NInf == -(2^30)
NaN == 2^30 + 1

IsNaN(x) == x = NaN
IsInf(x) == x = PInf \/ x = NInf
IsFinite(x) == x > NInf /\ x < PInf

Sgn(x) == IF x > 0 THEN 1 ELSE IF x < 0 THEN -1 ELSE 0

\* n/d rounded to the nearest integer, d > 0
RoundDiv(n, d) == (2 * n + d) \div (2 * d)

InfOfSign(s) == IF s > 0 THEN PInf ELSE NInf

FNeg(x) == IF IsNaN(x) THEN NaN ELSE -x

FAbs(x) == IF IsNaN(x) THEN NaN ELSE IF x < 0 THEN -x ELSE x

FAdd(x, y) ==
    IF IsNaN(x) \/ IsNaN(y) THEN NaN
    ELSE IF IsInf(x) THEN (IF IsInf(y) /\ y # x THEN NaN ELSE x)
    ELSE IF IsInf(y) THEN y
    ELSE x + y

FSub(x, y) == FAdd(x, FNeg(y))

FMul(x, y) ==
    IF IsNaN(x) \/ IsNaN(y) THEN NaN
    ELSE IF IsInf(x) \/ IsInf(y)
         THEN (IF x = 0 \/ y = 0 THEN NaN ELSE InfOfSign(Sgn(x) * Sgn(y)))
    ELSE RoundDiv(x * y, FQ)

FDiv(x, y) ==
    IF IsNaN(x) \/ IsNaN(y) THEN NaN
    ELSE IF IsInf(x) THEN (IF IsInf(y) THEN NaN
                           ELSE InfOfSign(Sgn(x) * (IF y < 0 THEN -1 ELSE 1)))
    ELSE IF IsInf(y) THEN 0
    ELSE IF y = 0 THEN (IF x = 0 THEN NaN ELSE InfOfSign(Sgn(x)))
    ELSE IF y > 0 THEN RoundDiv(x * FQ, y)
    ELSE RoundDiv((-x) * FQ, -y)

\* comparisons: every comparison with a NaN is false
FLt(x, y) == ~IsNaN(x) /\ ~IsNaN(y) /\ x < y
FLe(x, y) == ~IsNaN(x) /\ ~IsNaN(y) /\ x <= y
FGt(x, y) == FLt(y, x)
FGe(x, y) == FLe(y, x)
FNe(x, y) == IsNaN(x) \/ IsNaN(y) \/ x # y

\* the int n converted to float
FInt(n) == n * FQ

\* powf(x, 2)
FPow2(x) == FMul(x, x)

RECURSIVE ISqrtIn(_, _, _)
ISqrtIn(v, lo, hi) ==
    IF hi - lo <= 1 THEN lo
    ELSE LET mid == (lo + hi) \div 2
         IN IF mid * mid <= v THEN ISqrtIn(v, mid, hi) ELSE ISqrtIn(v, lo, mid)

\* floor of the square root of v >= 0
ISqrt(v) == ISqrtIn(v, 0, 2^15)

\* sqrtf
FSqrt(x) ==
    IF IsNaN(x) \/ x < 0 THEN NaN
    ELSE IF x = PInf THEN PInf
    ELSE LET r == ISqrt(x * FQ)
         IN IF (r + 1) * (r + 1) - x * FQ <= x * FQ - r * r THEN r + 1 ELSE r

\* #define M_PI 3.14159265358979323846, as a float
M_PI == 804

\* #define EPS 0.000000001: below the resolution, it rounds to zero
EPS == 0

\* sinf and cosf on [0, pi/4], by their Taylor polynomials
SinSmall(x) ==
    LET x2 == FMul(x, x)
        x3 == FMul(x2, x)
        x5 == FMul(x3, x2)
    IN x - RoundDiv(x3, 6) + RoundDiv(x5, 120)

CosSmall(x) ==
    LET x2 == FMul(x, x)
        x4 == FMul(x2, x2)
        x6 == FMul(x4, x2)
    IN FQ - RoundDiv(x2, 2) + RoundDiv(x4, 24) - RoundDiv(x6, 720)

\* sinf: the argument is reduced to an octant of the circle
FSin(x) ==
    IF ~IsFinite(x) THEN NaN
    ELSE LET oct == M_PI \div 4
             r == x % (8 * oct)
             n == r \div oct
             d == r - n * oct
         IN CASE n = 0 -> SinSmall(d)
              [] n = 1 -> CosSmall(oct - d)
              [] n = 2 -> CosSmall(d)
              [] n = 3 -> SinSmall(oct - d)
              [] n = 4 -> -SinSmall(d)
              [] n = 5 -> -CosSmall(oct - d)
              [] n = 6 -> -CosSmall(d)
              [] OTHER -> -SinSmall(oct - d)

\* cosf
FCos(x) == IF ~IsFinite(x) THEN NaN ELSE FSin(x + 2 * (M_PI \div 4))

RECURSIVE LogNorm(_, _)
\* <<k, m>> with y = m * 2^k and 1 <= m < 2
LogNorm(y, k) ==
    IF y >= 2 * FQ THEN LogNorm(RoundDiv(y, 2), k + 1)
    ELSE IF y < FQ THEN LogNorm(2 * y, k - 1)
    ELSE <<k, y>>

\* logf(2.0f) is reduced to itself: ln 2 is the constant of the reduction
LN2 == RoundDiv(6931 * FQ, 10000)

\* logf
FLog(y) ==
    IF IsNaN(y) \/ y < 0 THEN NaN
    ELSE IF y = 0 THEN NInf
    ELSE IF y = PInf THEN PInf
    ELSE LET km == LogNorm(y, 0)
             t == FDiv(km[2] - FQ, km[2] + FQ)
             t2 == FMul(t, t)
             t3 == FMul(t2, t)
             t5 == FMul(t3, t2)
         IN km[1] * LN2 + 2 * (t + RoundDiv(t3, 3) + RoundDiv(t5, 5))

\* expf
FExp(x) ==
    IF IsNaN(x) THEN NaN
    ELSE IF x = PInf THEN PInf
    ELSE IF x = NInf THEN 0
    ELSE LET n == x \div LN2
             r == x - n * LN2
             r2 == FMul(r, r)
             r3 == FMul(r2, r)
             r4 == FMul(r3, r)
             er == FQ + r + RoundDiv(r2, 2) + RoundDiv(r3, 6) + RoundDiv(r4, 24)
         IN IF n >= 0 THEN er * 2^n
            ELSE IF n < -20 THEN 0
            ELSE RoundDiv(er, 2^(-n))

\* ------------------------------------------------------------------------
\* buildSino3D_core_single: grids and per-primitive tables
\*   g  = [N, P, Th, CenTypeIn]   (Th: the angles in degrees, a sequence)
\*   pr = [Object, C0, x0, y0, z0, a, b, c, psi_gr1]
\* Array indices are the C indices (from 0).
\* ------------------------------------------------------------------------

AngTot(g) == Len(g.Th)

Sinorange_Pmax(g) == FDiv(FInt(g.P), FInt(g.N + 1))

Sinorange_Pmin(g) == FNeg(Sinorange_Pmax(g))

H_p(g) == FDiv(FSub(Sinorange_Pmax(g), Sinorange_Pmin(g)), FInt(g.P - 1))

Sinorange_P_Ar(g, i) == FSub(Sinorange_Pmax(g), FMul(FInt(i), H_p(g)))

Tomorange_Xmin == -FQ

Tomorange_Xmax == FQ

H_x(g) == FDiv(FSub(Tomorange_Xmax, Tomorange_Xmin), FInt(g.N))

Tomorange_X_Ar(g, i) == FAdd(Tomorange_Xmin, FMul(FInt(i), H_x(g)))

\* degrees times (float)M_PI/180.0f
DegToRad(deg) == RoundDiv(deg * M_PI, 180 * FQ)

AnglesRad(g, i) == DegToRad(g.Th[i + 1])

C1 == FMul(FInt(-4), FLog(FInt(2)))

\* the convention ignored: the full step is added whatever CenTypeIn is
x00FullStep(g, pr) == FAdd(pr.x0, H_x(g))

x00(g, pr) ==
    IF g.CenTypeIn = 0 THEN FAdd(pr.x0, H_x(g))
    ELSE FAdd(pr.x0, FMul(FQ \div 2, H_x(g)))

y00(g, pr) ==
    IF g.CenTypeIn = 0 THEN FAdd(pr.y0, H_x(g))
    ELSE FAdd(pr.y0, FMul(FQ \div 2, H_x(g)))

c2(pr) ==
    LET v == FDiv(FQ, FMul(pr.c, pr.c))
    IN IF pr.Object = 4 THEN FMul(FInt(4), v) ELSE v

phi_rot_radian(pr) == DegToRad(pr.psi_gr1)

Zdel(g, pr, k) == FSub(Tomorange_X_Ar(g, k), pr.z0)

Zdel2(g, pr, k) == FMul(c2(pr), FPow2(Zdel(g, pr, k)))

\* position of cell (slice k, angle i, detector j) in A
CellIndex(g, k, i, j) == k * g.P * AngTot(g) + i * g.P + j

SliceOf(g, idx) == idx \div (g.P * AngTot(g))

AngleOf(g, idx) == (idx % (g.P * AngTot(g))) \div g.P

DetOf(g, idx) == idx % g.P

\* ------------------------------------------------------------------------
\* buildSino3D_core_single: the shape kernels, one loop level at a time
\* ------------------------------------------------------------------------

KnownObject(pr) == pr.Object \in 1..6

\* the test that opens the body of the k-loop
SliceActive(g, pr, k) ==
    CASE pr.Object = 1 -> TRUE
      [] pr.Object \in 2..5 -> FLe(Zdel2(g, pr, k), FQ)
      [] pr.Object = 6 -> FLt(FAbs(Zdel(g, pr, k)), FMul(FQ \div 2, pr.c))
      [] OTHER -> FALSE

\* (1 - Zdel2[k])^2
Shrink(g, pr, k) == FPow2(FSub(FQ, Zdel2(g, pr, k)))

HalfN(g) == FDiv(FInt(g.N), FInt(2))

\* The values set at the head of the k-loop body: a1, b1, C00, AA5.
\* Object 1 assigns neither a1 nor b1 before reading them: u holds what the
\* two floats happen to contain.  Object 3 sets a22, b22 and AA5 before its
\* loop; they are carried in the fields a1, b1 and AA5.
SliceVars(g, pr, u, k) ==
    CASE pr.Object = 1 ->
           [a1 |-> u.a1, b1 |-> u.b1,
            AA5 |-> FMul(FMul(HalfN(g),
                              FDiv(FMul(FMul(pr.C0, FSqrt(u.a1)), FSqrt(u.b1)), FInt(2))),
                         FSqrt(FDiv(M_PI, FLog(FInt(2)))))]
      [] pr.Object = 2 ->
           LET a1 == FMul(pr.a, Shrink(g, pr, k))
               b1 == FMul(pr.b, Shrink(g, pr, k))
               C00 == FMul(pr.C0, Shrink(g, pr, k))
           IN [a1 |-> a1, b1 |-> b1, C00 |-> C00,
               AA5 |-> FMul(HalfN(g),
                            FMul(FMul(FMul(FDiv(M_PI, FInt(2)), C00), FSqrt(a1)), FSqrt(b1)))]
      [] pr.Object = 3 ->
           [a1 |-> FMul(pr.a, pr.a), b1 |-> FMul(pr.b, pr.b),
            AA5 |-> FMul(FMul(FMul(FInt(g.N), pr.C0), pr.a), pr.b)]
      [] pr.Object = 4 ->
           LET a1 == FMul(pr.a, Shrink(g, pr, k))
               b1 == FMul(pr.b, Shrink(g, pr, k))
               C00 == FMul(pr.C0, Shrink(g, pr, k))
           IN [a1 |-> a1, b1 |-> b1, C00 |-> C00,
               AA5 |-> FMul(HalfN(g),
                            FMul(FInt(4),
                                 FDiv(FMul(FMul(FMul(FQ \div 4, FSqrt(a1)), FSqrt(b1)), C00),
                                      (5 * FQ) \div 2)))]
      [] OTHER ->
           LET a1 == FMul(pr.a, Shrink(g, pr, k))
               b1 == FMul(pr.b, Shrink(g, pr, k))
               C00 == FMul(pr.C0, Shrink(g, pr, k))
           IN [a1 |-> a1, b1 |-> b1, C00 |-> C00,
               AA5 |-> FMul(HalfN(g), FMul(FMul(FSqrt(a1), FSqrt(b1)), C00))]

\* the value of a singleton: x \in {e} names e, which is then computed once
Pick(S) == CHOOSE v \in S : TRUE

\* p0, the projected centre at the angle th (radians)
AA2(g, pr, th) == FAdd(FMul(FNeg(x00(g, pr)), FCos(th)), FMul(y00(g, pr), FSin(th)))

\* sin_2 and cos_2 at the angle th (radians)
AngleTrig(pr, th) ==
    [sin_2 |-> FPow2(FSin(th + phi_rot_radian(pr))),
     cos_2 |-> FPow2(FCos(th + phi_rot_radian(pr)))]

\* delta1, delta_sq, first_dr and AA2 from sin_2 and cos_2
AngleRest(g, pr, sv, th, t) ==
    LET den == IF pr.Object = 4
               THEN FAdd(FMul(FMul(FQ \div 4, sv.a1), t.cos_2),
                         FMul(FMul(FQ \div 4, sv.b1), t.sin_2))
               ELSE FAdd(FMul(sv.a1, t.cos_2), FMul(sv.b1, t.sin_2))
        delta1 == FDiv(FQ, den)
    IN [delta1 |-> delta1, first_dr |-> FMul(sv.AA5, FSqrt(delta1)),
        AA2 |-> AA2(g, pr, th)]

\* The values set at the head of the i-loop body of Objects 1..5, for the
\* angle th (radians): delta1, first_dr and AA2.
AngleVars(g, pr, sv, th) ==
    Pick({AngleRest(g, pr, sv, th, t) : t \in {AngleTrig(pr, th)}})

\* (p - p0)^2
AA3(g, av, j) == FPow2(FSub(Sinorange_P_Ar(g, j), av.AA2))

\* the normalized squared distance
AA6(g, av, j) == FMul(AA3(g, av, j), av.delta1)

\* The body of the j-loop of Objects 1..5: the new value of a cell that held
\* old (old itself where the body does not assign the cell).
CellBlob(old, g, pr, av, j) ==
    LET under_exp == FMul(FMul(C1, AA3(g, av, j)), av.delta1)
    IN FAdd(old, FMul(av.first_dr, FExp(under_exp)))

\* the clamp left out: every cell is taken to lie inside the support
InsideSupportAlways(d) == TRUE

\* if (AA6 < 1.0f)
InsideSupport(d) == FLt(d, FQ)

CellParabola(old, g, pr, av, j) ==
    IF InsideSupport(AA6(g, av, j))
    THEN FAdd(old, FMul(av.first_dr, FSub(FQ, AA6(g, av, j))))
    ELSE old

CellDisk(old, g, pr, av, j) ==
    IF InsideSupport(AA6(g, av, j))
    THEN FAdd(old, FMul(av.first_dr, FSqrt(FSub(FQ, AA6(g, av, j)))))
    ELSE old

ConeValue(old, av, d) ==
    LET pps2 == IF FLt(d, FQ) /\ FLt(d, FSub(FQ, EPS))
                THEN FSqrt(FAbs(FSub(FQ, d))) ELSE 0
        ty1 == FDiv(FAdd(FQ, pps2), FSub(FQ, pps2))
        rlogi == IF FGt(d, EPS) /\ FNe(pps2, FQ) /\ FGt(ty1, 0)
                 THEN FMul(FMul(FQ \div 2, d), FLog(ty1)) ELSE 0
    IN FAdd(old, FMul(av.first_dr, FSub(pps2, rlogi)))

CellCone(old, g, pr, av, j) == Pick({ConeValue(old, av, d) : d \in {AA6(g, av, j)}})

\* The rectangle: x11, y11 and ksi1 are set before the loops.
x11(g, pr) ==
    IF g.CenTypeIn = 0 THEN FSub(FMul(FInt(-2), pr.y0), H_x(g))
    ELSE FSub(FMul(FInt(-2), pr.y0), FMul(FQ \div 2, H_x(g)))

y11(g, pr) ==
    IF g.CenTypeIn = 0 THEN FAdd(FMul(FInt(2), pr.x0), H_x(g))
    ELSE FAdd(FMul(FInt(2), pr.x0), FMul(FQ \div 2, H_x(g)))

ksi1(pr) ==
    IF FLt(phi_rot_radian(pr), 0) THEN FAdd(M_PI, phi_rot_radian(pr))
    ELSE phi_rot_radian(pr)

\* The body of the j-loop of Object 6 for the angle ksi00, in the order of
\* the code.  First the angles: ksi, the sign of p, and FI.
RectAngle(pr, ksi00) ==
    LET PI2 == FMul(M_PI, FQ \div 2)
        wrap == FGt(ksi00, M_PI)
        ksi == IF wrap THEN FSub(ksi00, M_PI) ELSE ksi00
        FI0 == IF FLt(FSub(ksi, ksi1(pr)), 0)
               THEN FSub(FAdd(M_PI, ksi), ksi1(pr))
               ELSE FSub(ksi, ksi1(pr))
    IN [wrap |-> wrap, ksi |-> ksi,
        FI |-> IF FGt(FI0, PI2) THEN FSub(M_PI, FI0) ELSE FI0]

\* C, S, CF, SF
RectTrig(ra) ==
    [C |-> FCos(ra.ksi), S |-> FSin(ra.ksi), CF |-> FCos(ra.FI), SF |-> FSin(ra.FI)]

\* XSYC, the projected centre of the rectangle
XSYC(g, pr, rt) == FAdd(FMul(FNeg(x11(g, pr)), rt.S), FMul(y11(g, pr), rt.C))

\* p, XSYC, A2, B2, P0
RectSetup(g, pr, j, ra, rt) ==
    LET p00 == Sinorange_P_Ar(g, j)
    IN [p |-> IF ra.wrap THEN FNeg(p00) ELSE p00,
        XSYC |-> XSYC(g, pr, rt),
        A2 |-> FMul(pr.b, FQ \div 2),
        B2 |-> FMul(pr.a, FQ \div 2)]

\* the chord: SS0..SS3 are the successive values of SS.  The first of the
\* two if (QM > ywid) blocks assigns only DEL and SS, which the second
\* block assigns again on every path; SS3 is the value after the second.
\* divCF, divSF: whether a division by CF, by SF is evaluated.  xwid/CF,
\* SF/CF and P0/CF are evaluated for every cell; ywid/SF or (QP-PC)/SF is
\* evaluated in both blocks exactly when QM > ywid.
RectChord(pr, rt, rs) ==
    LET xwid == pr.b
        ywid == pr.a
        P0 == FAbs(FSub(rs.p, rs.XSYC))
        SS0 == FMul(FDiv(xwid, rt.CF), pr.C0)
        nearCF == FLe(FAbs(rt.CF), EPS)
        SS1 == IF nearCF
               THEN (IF FGt(FSub(P0, rs.A2), EPS) THEN 0 ELSE FMul(ywid, pr.C0))
               ELSE SS0
        nearSF == FLe(FAbs(rt.SF), EPS)
        SS2 == IF nearSF
               THEN (IF FGt(FSub(P0, rs.B2), EPS) THEN 0 ELSE FMul(xwid, pr.C0))
               ELSE SS1
        TF == FDiv(rt.SF, rt.CF)
        PC == FDiv(P0, rt.CF)
        QP == FAdd(rs.B2, FMul(rs.A2, TF))
        QM == FAdd(QP, PC)
        DEL == FAdd(P0, FMul(rs.B2, rt.CF))
        SS3 == IF FGt(QM, ywid)
               THEN (IF FGt(DEL, FMul(rs.A2, rt.SF))
                     THEN FMul(FDiv(FSub(QP, PC), rt.SF), pr.C0)
                     ELSE FMul(FDiv(ywid, rt.SF), pr.C0))
               ELSE FMul(FDiv(xwid, rt.CF), pr.C0)
    IN [P0 |-> P0, nearCF |-> nearCF, nearSF |-> nearSF, SS2 |-> SS2,
        divCF |-> TRUE, divSF |-> FGt(QM, ywid),
        SS |-> IF FGe(PC, QP) THEN 0 ELSE SS3]

RectVars(g, pr, ksi00, j) ==
    Pick({Pick({Pick({RectChord(pr, rt, rs) : rs \in {RectSetup(g, pr, j, ra, rt)}}) :
                   rt \in {RectTrig(ra)}}) :
             ra \in {RectAngle(pr, ksi00)}})

\* the chord length added without the N/2 scale of the other kernels
CellRectUnscaled(old, g, pr, ksi00, j) == FAdd(old, RectVars(g, pr, ksi00, j).SS)

CellRect(old, g, pr, ksi00, j) ==
    FAdd(old, FMul(HalfN(g), RectVars(g, pr, ksi00, j).SS))

\* the entry of AnglesRad that row i of the output is computed from
AngleIndex(g, pr, i) == IF pr.Object = 6 THEN (AngTot(g) - 1) - i ELSE i

\* The values the i-loop body holds when its j-loop starts, for slice k and
\* the angle th: the locals of AngleVars, or ksi00 for the rectangle.
RowVars(g, pr, u, k, th) ==
    IF pr.Object = 6 THEN [ksi00 |-> th]
    ELSE Pick({AngleVars(g, pr, sv, th) : sv \in {SliceVars(g, pr, u, k)}})

\* The j-loop body of the kernel of pr.Object.
CellWith(old, g, pr, rv, j) ==
    CASE pr.Object = 1 -> CellBlob(old, g, pr, rv, j)
      [] pr.Object \in {2, 4} -> CellParabola(old, g, pr, rv, j)
      [] pr.Object = 3 -> CellDisk(old, g, pr, rv, j)
      [] pr.Object = 5 -> CellCone(old, g, pr, rv, j)
      [] OTHER -> CellRect(old, g, pr, rv.ksi00, j)

\* The j-loop body for the primitive pr at slice k, angle th, detector j.
CellBody(old, g, pr, u, k, th, j) == CellWith(old, g, pr, RowVars(g, pr, u, k, th), j)

\* buildSino3D_core_single: the buffer it leaves.  The three loops run over
\* k, i and j; row i is computed from AnglesRad[AngleIndex]; an Object
\* outside 1..6 takes the final else, where nothing is written.
KernelRows(g, pr, u) ==
    [k \in 0..(g.N - 1) |->
        IF SliceActive(g, pr, k)
        THEN [i \in 0..(AngTot(g) - 1) |->
                RowVars(g, pr, u, k, AnglesRad(g, AngleIndex(g, pr, i)))]
        ELSE <<>>]

buildSino3D_core_single(A, g, pr, u) ==
    IF KnownObject(pr)
    THEN Pick({[idx \in DOMAIN A |->
                  IF rows[SliceOf(g, idx)] = <<>> THEN A[idx]
                  ELSE CellWith(A[idx], g, pr,
                                rows[SliceOf(g, idx)][AngleOf(g, idx)], DetOf(g, idx))] :
               rows \in {KernelRows(g, pr, u)}})
    ELSE A

\* the five arrays buildSino3D_core_single allocates
ScratchArrays == {"Sinorange_P_Ar", "Tomorange_X_Ar", "AnglesRad", "Zdel", "Zdel2"}

\* the arrays a call leaves allocated: the final else returns before the frees
LeftAllocated(pr) == IF KnownObject(pr) THEN {} ELSE ScratchArrays

\* what buildSino3D_core_single prints
SinglePrints(pr) == IF KnownObject(pr) THEN <<>> ELSE <<"No such object exist!">>

\* ------------------------------------------------------------------------
\* State
\* ------------------------------------------------------------------------
VARIABLES
    g,              \* N, P, Th, CenTypeIn of the invocation
    A,              \* the output buffer
    file,           \* the lines of the parameters file
    exists,         \* whether fopen can open it
    ModelSelected,
    pc,             \* where buildSino3D_core stands
    in_file,        \* "null", "open" or "closed"
    pos,            \* lines read so far
    eof,            \* the stream's end-of-file indicator
    tmpstr,         \* tmpstr1..tmpstr12
    Model, Components, ii,
    out,            \* the lines printed
    calls,          \* history: the calls of buildSino3D_core_single
    heap,           \* the arrays allocated and not freed, per call
    ret,            \* the return statement taken
    nullops,        \* history: the stdio calls made on a null stream
    model,          \* kernel runs: the primitives projected one after another
    step,           \* kernel runs: primitives projected so far
    prev,           \* kernel runs: A before the last call
    lastu,          \* kernel runs: the unassigned a1, b1 of the last call
    solo,           \* kernel runs: each primitive projected alone on zeros
    obs,            \* kernel runs: values the last call computed
    sched,          \* parallel loop: the worker that runs each slice k
    wk,             \* parallel loop: where each worker stands
    mem,            \* parallel loop: the scratch variables, per copy
    log             \* parallel loop: history of the accesses of each worker

accVars == <<file, exists, ModelSelected, pc, in_file, pos, eof, tmpstr,
             Model, Components, ii, out, calls, heap, ret, nullops>>
kerVars == <<model, step, prev, lastu, solo, obs, sched, wk, mem, log>>
vars == <<g, A, accVars, kerVars>>

Zeros(gr) == [idx \in 0..(gr.N * gr.P * Len(gr.Th) - 1) |-> 0]

\* ------------------------------------------------------------------------
\* buildSino3D_core: the parameters file and its reading
\* A line is the sequence of its tokens: <<"#">> a comment, <<>> a blank
\* line, <<"Model", 2>>, <<"Components", 3>>, and an Object line
\* <<"Object", tag, C0, x, y, z0, a, b, c, psi1, psi2, psi3>>.
\* ------------------------------------------------------------------------

MinOf(x, y) == IF x < y THEN x ELSE y

\* sscanf with n conversions: the tokens matched are stored, the other
\* tmpstr buffers keep what they held
sscanf(line, n, t) ==
    [m \in 1..12 |-> IF m <= MinOf(Len(line), n) THEN line[m] ELSE t[m]]

\* fgets at the read position: the line, or "NULL" at the end of the file
FgetsOk == pos < Len(file)

\* tmpstr after the fgets/sscanf of one iteration of the component loop
ForScan == IF FgetsOk THEN sscanf(file[pos + 1], 12, tmpstr.t) ELSE tmpstr.t

\* the line the Object fields of tmpstr come from, after that fgets/sscanf
ForSrc ==
    IF FgetsOk /\ Len(file[pos + 1]) >= 1 /\ file[pos + 1][1] = "Object"
    THEN pos + 1 ELSE tmpstr.src

\* the descriptor read out of tmpstr2..tmpstr10 (lines 407-417)
Descriptor(t) ==
    [Object |-> t[2], C0 |-> t[3], y0 |-> t[4], x0 |-> t[5], z0 |-> t[6],
     a |-> t[7], b |-> t[8], c |-> t[9], psi_gr1 |-> t[10]]

\* parameters_check3D: 0 when the geometry is sane
parameters_check3D(pr) ==
    IF pr.a > 0 /\ pr.b > 0 /\ pr.c > 0
       /\ FAbs(pr.x0) <= FInt(2) /\ FAbs(pr.y0) <= FInt(2) /\ FAbs(pr.z0) <= FInt(2)
    THEN 0 ELSE 1

\* the test of func_val dropped: every primitive is built
BuildsPhantomAlways(func_val) == TRUE

\* line 424: the test that guards the call of the kernel
BuildsPhantom(func_val) == func_val = 0

Fopen ==
    /\ pc = "fopen"
    /\ in_file' = IF exists THEN "open" ELSE "null"
    /\ out' = IF exists THEN out
              ELSE Append(out, "Parameters file does not exist or cannot be read!")
    /\ pc' = "while"
    /\ UNCHANGED <<g, A, file, exists, ModelSelected, pos, eof, tmpstr, Model,
                   Components, ii, calls, heap, ret, kerVars,
                   nullops>>

\* feof on a null stream is undefined: the process dies in feof, or feof
\* returns and its result is non-zero (the loop is left) or zero (fgets is
\* then called on the null stream, where the process dies)
WhileNull ==
    /\ pc = "while" /\ in_file = "null"
    /\ \/ pc' = "crashed" /\ nullops' = Append(nullops, "feof")
       \/ pc' = "fclose" /\ nullops' = Append(nullops, "feof")
       \/ pc' = "crashed" /\ nullops' = nullops \o <<"feof", "fgets">>
    /\ UNCHANGED <<g, A, file, exists, ModelSelected, in_file, pos, eof, tmpstr,
                   Model, Components, ii, out, calls, heap, ret, kerVars>>

\* while(!feof(in_file)) ends
WhileEof ==
    /\ pc = "while" /\ in_file = "open" /\ eof
    /\ pc' = "fclose"
    /\ UNCHANGED <<g, A, file, exists, ModelSelected, in_file, pos, eof, tmpstr,
                   Model, Components, ii, out, calls, heap, ret, kerVars,
                   nullops>>

\* fgets returns NULL: the end-of-file indicator is set
WhileFgetsNull ==
    /\ pc = "while" /\ in_file = "open" /\ ~eof /\ ~FgetsOk
    /\ eof' = TRUE
    /\ UNCHANGED <<g, A, file, exists, ModelSelected, pc, in_file, pos, tmpstr,
                   Model, Components, ii, out, calls, heap, ret, kerVars,
                   nullops>>

IsComment(line) == Len(line) >= 1 /\ line[1] = "#"

WhileComment ==
    /\ pc = "while" /\ in_file = "open" /\ ~eof /\ FgetsOk
    /\ IsComment(file[pos + 1])
    /\ pos' = pos + 1
    /\ UNCHANGED <<g, A, file, exists, ModelSelected, pc, in_file, eof, tmpstr,
                   Model, Components, ii, out, calls, heap, ret, kerVars,
                   nullops>>

\* tmpstr and Model after lines 379-384 on the line at the read position
WhileScan == sscanf(file[pos + 1], 2, tmpstr.t)

WhileModel == IF WhileScan[1] = "Model" THEN WhileScan[2] ELSE Model

\* a line of another model: the loop goes on
WhileNoMatch ==
    /\ pc = "while" /\ in_file = "open" /\ ~eof /\ FgetsOk
    /\ ~IsComment(file[pos + 1])
    /\ ModelSelected # WhileModel
    /\ pos' = pos + 1
    /\ tmpstr' = [tmpstr EXCEPT !.t = WhileScan]
    /\ Model' = WhileModel
    /\ UNCHANGED <<g, A, file, exists, ModelSelected, pc, in_file, eof,
                   Components, ii, out, calls, heap, ret, kerVars,
                   nullops>>

\* tmpstr after the second fgets/sscanf (lines 390-391)
MatchScan ==
    IF pos + 1 < Len(file) THEN sscanf(file[pos + 2], 2, WhileScan) ELSE WhileScan

\* the selected model is found and its Components line read
WhileMatch ==
    /\ pc = "while" /\ in_file = "open" /\ ~eof /\ FgetsOk
    /\ ~IsComment(file[pos + 1])
    /\ ModelSelected = WhileModel
    /\ MatchScan[1] = "Components"
    /\ pos' = IF pos + 1 < Len(file) THEN pos + 2 ELSE pos + 1
    /\ eof' = ~(pos + 1 < Len(file))
    /\ tmpstr' = [tmpstr EXCEPT !.t = MatchScan]
    /\ Model' = WhileModel
    /\ Components' = MatchScan[2]
    /\ ii' = 0
    /\ out' = Append(out, "The selected Model")
    /\ pc' = "for"
    /\ UNCHANGED <<g, A, file, exists, ModelSelected, in_file, calls, heap, ret,
                   kerVars,
                   nullops>>

\* the selected model is found, no Components line follows: return 0
WhileMatchUnknown ==
    /\ pc = "while" /\ in_file = "open" /\ ~eof /\ FgetsOk
    /\ ~IsComment(file[pos + 1])
    /\ ModelSelected = WhileModel
    /\ MatchScan[1] # "Components"
    /\ pos' = IF pos + 1 < Len(file) THEN pos + 2 ELSE pos + 1
    /\ eof' = ~(pos + 1 < Len(file))
    /\ tmpstr' = [tmpstr EXCEPT !.t = MatchScan]
    /\ Model' = WhileModel
    /\ out' = out \o <<"The selected Model", "The number of components is unknown!">>
    /\ ret' = "return 0"
    /\ pc' = "returned"
    /\ UNCHANGED <<g, A, file, exists, ModelSelected, in_file, Components, ii,
                   calls, heap, kerVars,
                   nullops>>

\* What the unassigned floats a1 and b1 of Object 1 may hold when read.
Uninit(pr) ==
    IF pr.Object = 1
    THEN {[a1 |-> 0, b1 |-> 0], [a1 |-> FQ, b1 |-> FQ \div 4]}
    ELSE {[a1 |-> 0, b1 |-> 0]}

\* the end of one iteration of the component loop
ForStep ==
    /\ pos' = IF FgetsOk THEN pos + 1 ELSE pos
    /\ eof' = (eof \/ ~FgetsOk)
    /\ tmpstr' = [t |-> ForScan, src |-> ForSrc]
    /\ ii' = ii + 1

\* tmpstr1 is not "Object": nothing is built
ForSkip ==
    /\ pc = "for" /\ ii < Components
    /\ ForScan[1] # "Object"
    /\ ForStep
    /\ UNCHANGED <<g, A, file, exists, ModelSelected, pc, in_file, Model,
                   Components, out, calls, heap, ret, kerVars,
                   nullops>>

\* tmpstr1 is "Object" and the parameters pass: the kernel is called
ForBuild ==
    /\ pc = "for" /\ ii < Components
    /\ ForScan[1] = "Object"
    /\ BuildsPhantom(parameters_check3D(Descriptor(ForScan)))
    /\ ForStep
    /\ \E u \in Uninit(Descriptor(ForScan)) :
          A' = buildSino3D_core_single(A, g, Descriptor(ForScan), u)
    /\ calls' = Append(calls, [src |-> ForSrc, ii |-> ii, pr |-> Descriptor(ForScan)])
    /\ heap' = heap \cup {<<Len(calls) + 1, x>> : x \in LeftAllocated(Descriptor(ForScan))}
    /\ out' = out \o <<"Object">> \o SinglePrints(Descriptor(ForScan))
    /\ UNCHANGED <<g, file, exists, ModelSelected, pc, in_file, Model, Components,
                   ret, kerVars,
                   nullops>>

\* tmpstr1 is "Object" and the parameters fail: a message, no call
ForInvalid ==
    /\ pc = "for" /\ ii < Components
    /\ ForScan[1] = "Object"
    /\ ~BuildsPhantom(parameters_check3D(Descriptor(ForScan)))
    /\ ForStep
    /\ out' = out \o <<"Object", "Function prematurely terminated, not all objects included">>
    /\ UNCHANGED <<g, A, file, exists, ModelSelected, pc, in_file, Model,
                   Components, calls, heap, ret, kerVars,
                   nullops>>

\* the component loop ends, then the break
ForExit ==
    /\ pc = "for" /\ ~(ii < Components)
    /\ pc' = "fclose"
    /\ UNCHANGED <<g, A, file, exists, ModelSelected, in_file, pos, eof, tmpstr,
                   Model, Components, ii, out, calls, heap, ret, kerVars,
                   nullops>>

\* fclose(in_file); return *A;
Fclose ==
    /\ pc = "fclose" /\ in_file = "open"
    /\ in_file' = "closed"
    /\ ret' = "return *A"
    /\ pc' = "returned"
    /\ UNCHANGED <<g, A, file, exists, ModelSelected, pos, eof, tmpstr, Model,
                   Components, ii, out, calls, heap, kerVars,
                   nullops>>

\* fclose on a null stream is undefined: the process dies, or fclose
\* returns and the function returns *A
FcloseNull ==
    /\ pc = "fclose" /\ in_file = "null"
    /\ nullops' = Append(nullops, "fclose")
    /\ \/ pc' = "crashed" /\ ret' = ret
       \/ pc' = "returned" /\ ret' = "return *A"
    /\ UNCHANGED <<g, A, file, exists, ModelSelected, in_file, pos, eof, tmpstr,
                   Model, Components, ii, out, calls, heap, kerVars>>

\* ------------------------------------------------------------------------
\* Inputs of the accumulator runs
\* ------------------------------------------------------------------------

\* the component count a file may declare, and the lines that may follow it
MaxComponents == 2
MaxLines == 2

ObjectLine(tag, C0, x, y, z, a, b, c, psi) ==
    <<"Object", tag, C0, x, y, z, a, b, c, psi, 0, 0>>

\* Object lines: a disk, a rectangle, a parabola off centre, an unknown
\* shape, and a disk whose extent a is zero
DiskLine == ObjectLine(3, FQ, 0, 0, 0, FQ \div 2, FQ \div 2, FQ, 0)
RectLine == ObjectLine(6, FQ, 0, 0, 0, FQ, FQ \div 2, FQ, 0)
ParabolaLine == ObjectLine(2, FQ \div 2, FQ \div 4, 0, 0, FQ \div 2, FQ \div 4, 2 * FQ, 45 * FQ)
UnknownLine == ObjectLine(7, FQ, 0, 0, 0, FQ \div 2, FQ \div 2, FQ, 0)
BadLine == ObjectLine(3, FQ, 0, 0, 0, 0, FQ \div 2, FQ, 0)

BodyLines == {DiskLine, RectLine, ParabolaLine, UnknownLine, BadLine,
              <<>>, <<"Model", 9>>}

RECURSIVE SeqsUpTo(_, _)
\* the sequences over S of length at most n
SeqsUpTo(S, n) ==
    IF n = 0 THEN {<<>>}
    ELSE LET shorter == SeqsUpTo(S, n - 1)
         IN shorter \cup {Append(q, x) : q \in {r \in shorter : Len(r) = n - 1}, x \in S}

\* a file: possibly another model first, then model 2
OtherModel == <<<<"#">>, <<"Model", 1>>, <<"Components", 1>>, DiskLine>>

Heads == {<<<<"Model", 2>>, <<"Components", n>>>> : n \in 0..MaxComponents}
            \cup {<<<<"Model", 2>>, <<"Object", 3>>>>}

Files == {pre \o head \o body :
            pre \in {<<>>, OtherModel}, head \in Heads,
            body \in SeqsUpTo(BodyLines, MaxLines)}

AccGrid == [N |-> 2, P |-> 3, Th |-> <<0, 45 * FQ>>, CenTypeIn |-> 1]

ParIdle == sched = <<>> /\ wk = <<>> /\ mem = <<>> /\ log = <<>>

KerIdle ==
    /\ model = <<>> /\ step = 0 /\ prev = <<>> /\ lastu = <<>> /\ solo = <<>>
    /\ obs = <<>>
    /\ ParIdle

Init ==
    /\ g = AccGrid
    /\ A = Zeros(AccGrid)
    /\ \/ exists = TRUE /\ file \in Files /\ ModelSelected \in {2, 3}
       \/ exists = FALSE /\ file = <<>> /\ ModelSelected = 2
    /\ pc = "fopen"
    /\ in_file = "null"
    /\ pos = 0
    /\ eof = FALSE
    /\ tmpstr = [t |-> [m \in 1..12 |-> IF m = 1 THEN "" ELSE 0], src |-> 0]
    /\ Model = 0 /\ Components = 0 /\ ii = 0
    /\ out = <<>>
    /\ calls = <<>>
    /\ heap = {}
    /\ ret = "none"
    /\ nullops = <<>>
    /\ KerIdle

Next ==
    \/ Fopen
    \/ WhileNull
    \/ WhileEof
    \/ WhileFgetsNull
    \/ WhileComment
    \/ WhileNoMatch
    \/ WhileMatch
    \/ WhileMatchUnknown
    \/ ForSkip
    \/ ForBuild
    \/ ForInvalid
    \/ ForExit
    \/ Fclose
    \/ FcloseNull

Spec == Init /\ [][Next]_vars

\* ------------------------------------------------------------------------
\* Kernel runs: buildSino3D_core_single applied to one or two primitives,
\* on the accumulated buffer A and, each primitive alone, on zeros.
\* ------------------------------------------------------------------------

\* the number of projection angles
MaxAng == 2

AngleSet == {0, 45 * FQ, 180 * FQ}

Sizes == {[N |-> 2, P |-> 3], [N |-> 4, P |-> 3]}

\* the angle lists: non-empty and increasing
AngleLists ==
    {th \in SeqsUpTo(AngleSet, MaxAng) :
        /\ th # <<>>
        /\ \A m, n \in DOMAIN th : m < n => th[m] < th[n]}

KerGrids ==
    {[N |-> sz.N, P |-> sz.P, Th |-> th, CenTypeIn |-> cen] :
        sz \in Sizes, th \in AngleLists, cen \in {0, 1}}

\* two primitives per shape: one centred and unrotated, one off centre and
\* rotated by 45 degrees
KerPrims(tag) ==
    {[Object |-> tag, C0 |-> FQ, x0 |-> 0, y0 |-> 0, z0 |-> 0,
      a |-> FQ, b |-> FQ \div 2, c |-> FQ \div 2, psi_gr1 |-> 0],
     [Object |-> tag, C0 |-> FQ \div 2, x0 |-> FQ \div 4, y0 |-> -(FQ \div 4),
      z0 |-> -(FQ \div 2), a |-> FQ \div 2, b |-> FQ \div 2, c |-> FQ,
      psi_gr1 |-> 45 * FQ]}

KerModels ==
    UNION {{<<p>> : p \in KerPrims(tag)}
              \cup {<<p, q>> : p \in {r \in KerPrims(tag) : r.psi_gr1 = 0},
                               q \in {r \in KerPrims(tag) : r.psi_gr1 # 0}} :
              tag \in 1..7}

\* the grid of the same invocation under the centering convention cen
GridUnder(gr, cen) == [gr EXCEPT !.CenTypeIn = cen]

\* the three grid arrays
GridArrays(gr) ==
    [P_Ar |-> [j \in 0..(gr.P - 1) |-> Sinorange_P_Ar(gr, j)],
     X_Ar |-> [k \in 0..(gr.N - 1) |-> Tomorange_X_Ar(gr, k)],
     Rad |-> [i \in 0..(AngTot(gr) - 1) |-> AnglesRad(gr, i)]]

\* the projected centre the kernel uses for row i: p0 (AA2), or XSYC
ProjCenter(gr, pr, i) ==
    IF pr.Object = 6
    THEN XSYC(gr, pr, RectTrig(RectAngle(pr, AnglesRad(gr, AngleIndex(gr, pr, i)))))
    ELSE AA2(gr, pr, AnglesRad(gr, AngleIndex(gr, pr, i)))

\* the centre coordinates the kernel projects: <<x00, y00>>, or <<y11, -x11>>
CenterUsed(gr, pr) ==
    IF pr.Object = 6 THEN <<y11(gr, pr), FNeg(x11(gr, pr))>>
    ELSE <<x00(gr, pr), y00(gr, pr)>>

\* the values of AA6 the disk kernel computes in its j-loop
DiskAA6(gr, pr) ==
    {AA6(gr, RowVars(gr, pr, [a1 |-> 0, b1 |-> 0], c[1], AnglesRad(gr, c[2])), c[3]) :
        c \in {x \in (0..(gr.N - 1)) \X (0..(AngTot(gr) - 1)) \X (0..(gr.P - 1)) :
                 SliceActive(gr, pr, x[1])}}

\* the arguments the disk kernel hands to sqrtf
DiskSqrtArgs(gr, pr) == {FSub(FQ, d) : d \in {x \in DiskAA6(gr, pr) : InsideSupport(x)}}

\* what a call computes under the convention of gr
ObserveUnder(gr, pr) ==
    [grids |-> GridArrays(gr),
     center |-> [i \in 0..(AngTot(gr) - 1) |-> ProjCenter(gr, pr, i)],
     used |-> CenterUsed(gr, pr)]

\* what the last call computed: the arguments of sqrtf, and the grids and
\* centres under CenTypeIn = 0 and under CenTypeIn = 1
Observe(gr, pr) ==
    [sqrtArgs |-> IF pr.Object = 3 THEN DiskSqrtArgs(gr, pr) ELSE {},
     under |-> [cen \in {0, 1} |-> ObserveUnder(GridUnder(gr, cen), pr)]]

AccIdle ==
    /\ file = <<>> /\ exists = FALSE /\ ModelSelected = 0 /\ pc = "kernel"
    /\ in_file = "null" /\ pos = 0 /\ eof = FALSE
    /\ tmpstr = <<>> /\ Model = 0 /\ Components = 0 /\ ii = 0
    /\ out = <<>> /\ calls = <<>> /\ heap = {} /\ ret = "none" /\ nullops = <<>>

InitKernel ==
    /\ g \in KerGrids
    /\ A = Zeros(g)
    /\ model \in KerModels
    /\ step = 0
    /\ prev = A
    /\ lastu = [a1 |-> 0, b1 |-> 0]
    /\ solo = <<>>
    /\ obs = <<>>
    /\ ParIdle
    /\ AccIdle

\* the next primitive of the model is projected into A, and alone into zeros
Project ==
    /\ pc = "kernel" /\ step < Len(model)
    /\ \E u1, u2 \in Uninit(model[step + 1]) :
          \E r \in {[w \in 1..2 |->
                       buildSino3D_core_single(IF w = 1 THEN A ELSE Zeros(g), g,
                                               model[step + 1],
                                               IF w = 1 THEN u1 ELSE u2)]} :
              /\ A' = r[1]
              /\ solo' = Append(solo, r[2])
              /\ lastu' = u1
    /\ prev' = A
    /\ step' = step + 1
    /\ obs' = Observe(g, model[step + 1])
    /\ out' = out \o SinglePrints(model[step + 1])
    /\ heap' = heap \cup {<<step + 1, x>> : x \in LeftAllocated(model[step + 1])}
    /\ UNCHANGED <<g, model, file, exists, ModelSelected, pc, in_file, pos, eof,
                   tmpstr, Model, Components, ii, calls, ret, nullops, sched, wk,
                   mem, log>>

SpecKernel == InitKernel /\ [][Project]_vars

\* ------------------------------------------------------------------------
\* The k-loop of one kernel as an OpenMP parallel for: the workers run the
\* slices handed to them, each slice by one worker, in any interleaving.
\* A worker's step is the head of a k-iteration, the head of an i-iteration,
\* the body of a j-iteration up to the read of the cell, or the store of
\* A[...] += ...
\* ------------------------------------------------------------------------

\* the number of threads of the team
NThreads == 2

Workers == 0..(NThreads - 1)

\* the owner of the one copy of a variable that is not private
Shared == -1

\* a parallel for without the private clause: only the loop index is private
PrivateLoopIndexOnly(obj) == {"k"}

\* the private clause of the pragma of each kernel
Private(obj) ==
    CASE obj \in {2, 4} ->
           {"k", "i", "j", "a1", "b1", "C00", "sin_2", "cos_2", "delta1", "delta_sq",
            "first_dr", "AA2", "AA3", "AA5", "AA6"}
      [] obj = 3 ->
           {"k", "i", "j", "sin_2", "cos_2", "delta1", "delta_sq", "first_dr", "AA2",
            "AA3", "AA6"}
      [] obj = 5 ->
           {"k", "i", "j", "a1", "b1", "C00", "sin_2", "cos_2", "delta1", "delta_sq",
            "first_dr", "AA2", "AA3", "AA5", "AA6", "pps2", "rlogi", "ty1"}
      [] obj = 6 ->
           {"k", "i", "j", "PI2", "p", "ksi", "C", "S", "A2", "B2", "FI", "CF", "SF",
            "P0", "TF", "PC", "QM", "DEL", "XSYC", "QP", "SS", "p00", "ksi00"}
      [] OTHER -> {}

\* the variables assigned at the head of a k-iteration whose slice is active
SliceWrites(obj) == IF obj \in {2, 4, 5} THEN {"a1", "b1", "C00", "AA5"} ELSE {}

\* the variables read and assigned at the head of an i-iteration
AngleReads(obj) ==
    CASE obj \in {2, 4, 5} -> {"a1", "b1", "AA5"}
      [] obj = 3 -> {"a22", "b22", "AA5"}
      [] OTHER -> {}

AngleWrites(obj) ==
    IF obj = 6 THEN {"i", "ksi00"}
    ELSE {"i", "sin_2", "cos_2", "delta1", "delta_sq", "first_dr", "AA2"}

\* the variables read and assigned in the body of a j-iteration
CellReads(obj) == IF obj = 6 THEN {"ksi00"} ELSE {"delta1", "first_dr", "AA2"}

CellWrites(obj) ==
    CASE obj \in {2, 3, 4} -> {"j", "AA3", "AA6"}
      [] obj = 5 -> {"j", "AA3", "AA6", "pps2", "rlogi", "ty1"}
      [] OTHER -> {"j", "p00", "PI2", "p", "ksi", "C", "S", "XSYC", "A2", "B2", "FI",
                   "CF", "SF", "P0", "SS", "TF", "PC", "QP", "QM", "DEL"}

\* the scratch variables whose values pass from one step to a later one
Carried == {"a1", "b1", "a22", "b22", "AA5", "delta1", "first_dr", "AA2", "ksi00"}

\* the copy of the variable name that worker w accesses
Loc(w, obj, name) == IF name \in Private(obj) THEN <<w, name>> ELSE <<Shared, name>>

LocsOf(w, obj, names) == {Loc(w, obj, n) : n \in names}

ParGrid == [N |-> 3, P |-> 2, Th |-> <<0, 45 * FQ>>, CenTypeIn |-> 1]

\* the kernels that carry a pragma
ParPrims == UNION {KerPrims(tag) : tag \in 2..6}

\* each worker is handed a contiguous range of slices
Schedules ==
    {f \in [0..(ParGrid.N - 1) -> Workers] :
        \A m, n \in 0..(ParGrid.N - 1) : m < n => f[m] <= f[n]}

\* the next slice after k that worker w runs, -1 when there is none
NextSlice(f, w, k) ==
    LET S == {x \in (k + 1)..(ParGrid.N - 1) : f[x] = w}
    IN IF S = {} THEN -1 ELSE CHOOSE x \in S : \A y \in S : x <= y

StartAt(k) ==
    [k |-> k, at |-> IF k = -1 THEN "done" ELSE "slice", i |-> 0, j |-> 0, val |-> 0]

\* the scratch memory when the team starts: the disk kernel sets a22, b22
\* and AA5 before its loop; every other copy is yet to be assigned
MemAtFork(gr, pr) ==
    [l \in (Workers \cup {Shared}) \X Carried |->
        IF pr.Object = 3 /\ l[1] = Shared
        THEN CASE l[2] = "a22" -> SliceVars(gr, pr, [a1 |-> 0, b1 |-> 0], 0).a1
               [] l[2] = "b22" -> SliceVars(gr, pr, [a1 |-> 0, b1 |-> 0], 0).b1
               [] l[2] = "AA5" -> SliceVars(gr, pr, [a1 |-> 0, b1 |-> 0], 0).AA5
               [] OTHER -> 0
        ELSE 0]

InitPar ==
    /\ g = ParGrid
    /\ A = Zeros(g)
    /\ model \in {<<p>> : p \in ParPrims}
    /\ step = 0
    /\ prev = A
    /\ lastu = [a1 |-> 0, b1 |-> 0]
    /\ solo = <<>>
    /\ obs = <<>>
    /\ sched \in Schedules
    /\ wk = [w \in Workers |-> StartAt(NextSlice(sched, w, -1))]
    /\ mem = MemAtFork(g, model[1])
    /\ log = [wrote |-> {}, read |-> {}, cells |-> {}]
    /\ file = <<>> /\ exists = FALSE /\ ModelSelected = 0 /\ pc = "parallel"
    /\ in_file = "null" /\ pos = 0 /\ eof = FALSE
    /\ tmpstr = <<>> /\ Model = 0 /\ Components = 0 /\ ii = 0
    /\ out = <<>> /\ calls = <<>> /\ heap = {} /\ ret = "none" /\ nullops = <<>>

ParUnchanged ==
    UNCHANGED <<g, accVars, model, step, prev, lastu, solo, obs, sched>>

\* mem with the values vals (a function on names) stored by worker w
Stored(w, obj, vals) ==
    [l \in DOMAIN mem |->
        IF \E n \in DOMAIN vals : l = Loc(w, obj, n)
        THEN vals[CHOOSE n \in DOMAIN vals : l = Loc(w, obj, n)]
        ELSE mem[l]]

Logged(w, obj, reads, writes) ==
    [log EXCEPT !.read = @ \cup {<<w, l>> : l \in LocsOf(w, obj, reads)},
                !.wrote = @ \cup {<<w, l>> : l \in LocsOf(w, obj, writes)}]

\* worker w after the j-iteration it stands in
Advance(w) ==
    IF wk[w].j + 1 < g.P THEN [wk[w] EXCEPT !.at = "cell", !.j = @ + 1]
    ELSE IF wk[w].i + 1 < AngTot(g) THEN [wk[w] EXCEPT !.at = "angle", !.i = @ + 1]
    ELSE StartAt(NextSlice(sched, w, wk[w].k))

\* the head of a k-iteration: the slice test, then a1, b1, C00 and AA5
ParSlice(w) ==
    /\ pc = "parallel" /\ wk[w].at = "slice"
    /\ IF SliceActive(g, model[1], wk[w].k)
       THEN /\ \E sv \in {SliceVars(g, model[1], lastu, wk[w].k)} :
                 mem' = Stored(w, model[1].Object,
                               [n \in SliceWrites(model[1].Object) \ {"C00"} |-> sv[n]])
            /\ log' = Logged(w, model[1].Object, {}, {"k"} \cup SliceWrites(model[1].Object))
            /\ wk' = [wk EXCEPT ![w] = [@ EXCEPT !.at = "angle", !.i = 0]]
       ELSE /\ mem' = mem
            /\ log' = Logged(w, model[1].Object, {}, {"k"})
            /\ wk' = [wk EXCEPT ![w] = StartAt(NextSlice(sched, w, wk[w].k))]
    /\ A' = A
    /\ ParUnchanged

\* a1 (a22), b1 (b22) and AA5 as worker w reads them
SliceVarsRead(w) ==
    [a1 |-> mem[Loc(w, model[1].Object, IF model[1].Object = 3 THEN "a22" ELSE "a1")],
     b1 |-> mem[Loc(w, model[1].Object, IF model[1].Object = 3 THEN "b22" ELSE "b1")],
     AA5 |-> mem[Loc(w, model[1].Object, "AA5")]]

\* the head of an i-iteration: sin_2 .. AA2, or ksi00
ParAngle(w) ==
    /\ pc = "parallel" /\ wk[w].at = "angle"
    /\ \E th \in {AnglesRad(g, AngleIndex(g, model[1], wk[w].i))} :
          IF model[1].Object = 6
          THEN mem' = Stored(w, 6, [n \in {"ksi00"} |-> th])
          ELSE \E av \in {AngleVars(g, model[1], SliceVarsRead(w), th)} :
                  mem' = Stored(w, model[1].Object,
                                [n \in {"delta1", "first_dr", "AA2"} |-> av[n]])
    /\ log' = Logged(w, model[1].Object, AngleReads(model[1].Object),
                     AngleWrites(model[1].Object))
    /\ wk' = [wk EXCEPT ![w] = [@ EXCEPT !.at = "cell", !.j = 0]]
    /\ A' = A
    /\ ParUnchanged

\* delta1, first_dr and AA2, or ksi00, as worker w reads them
RowVarsRead(w) ==
    IF model[1].Object = 6 THEN [ksi00 |-> mem[Loc(w, 6, "ksi00")]]
    ELSE [delta1 |-> mem[Loc(w, model[1].Object, "delta1")],
          first_dr |-> mem[Loc(w, model[1].Object, "first_dr")],
          AA2 |-> mem[Loc(w, model[1].Object, "AA2")]]

\* whether the j-iteration reaches the statement A[...] += ...
Touches(pr, rv, j) == pr.Object \in {5, 6} \/ InsideSupport(AA6(g, rv, j))

\* the cell worker w stands at
CellAt(w) == CellIndex(g, wk[w].k, wk[w].i, wk[w].j)

\* the body of a j-iteration, up to the sum whose store is the next step
ParCell(w) ==
    /\ pc = "parallel" /\ wk[w].at = "cell"
    /\ \E rv \in {RowVarsRead(w)} :
          IF Touches(model[1], rv, wk[w].j)
          THEN wk' = [wk EXCEPT ![w] =
                         [@ EXCEPT !.at = "store",
                                   !.val = CellWith(A[CellAt(w)], g, model[1], rv, wk[w].j)]]
          ELSE wk' = [wk EXCEPT ![w] = Advance(w)]
    /\ log' = Logged(w, model[1].Object, CellReads(model[1].Object),
                     CellWrites(model[1].Object))
    /\ A' = A /\ mem' = mem
    /\ ParUnchanged

\* the store of A[...] += ...
ParStore(w) ==
    /\ pc = "parallel" /\ wk[w].at = "store"
    /\ A' = [A EXCEPT ![CellAt(w)] = wk[w].val]
    /\ log' = [log EXCEPT !.cells = @ \cup {<<w, CellAt(w)>>}]
    /\ wk' = [wk EXCEPT ![w] = Advance(w)]
    /\ mem' = mem
    /\ ParUnchanged

\* the barrier that ends the parallel for
ParJoin ==
    /\ pc = "parallel" /\ step = 0
    /\ \A w \in Workers : wk[w].at = "done"
    /\ step' = 1
    /\ UNCHANGED <<g, A, accVars, model, prev, lastu, solo, obs, sched, wk, mem, log>>

NextPar ==
    \/ \E w \in Workers : ParSlice(w)
    \/ \E w \in Workers : ParAngle(w)
    \/ \E w \in Workers : ParCell(w)
    \/ \E w \in Workers : ParStore(w)
    \/ ParJoin

SpecPar == InitPar /\ [][NextPar]_vars

\* ------------------------------------------------------------------------
\* Properties of buildSino3D_core (specification Spec)
\* ------------------------------------------------------------------------

\* C1: once a primitive with a shape tag outside 1..6 has been handed to the
\* kernel, no record that follows it in the file is handed to a kernel, and
\* the invocation returns by the failure return, not by `return *A`.
C1_UnsupportedShapeAborts ==
    \A n \in 1..Len(calls) :
        ~KnownObject(calls[n].pr) =>
            /\ \A m \in 1..Len(calls) : m > n => calls[m].src <= calls[n].src
            /\ pc = "returned" => ret = "return 0"

InvalidMessage == "Function prematurely terminated, not all objects included"

\* the iteration of the component loop at hand reads a primitive whose
\* parameters fail parameters_check3D
AtInvalidPrimitive ==
    /\ pc = "for" /\ ii < Components
    /\ ForScan[1] = "Object"
    /\ parameters_check3D(Descriptor(ForScan)) # 0

\* C4: a primitive that fails the parameter check is not handed to a kernel,
\* leaves the buffer as it is, has a warning printed, and the component
\* loop goes on to its next iteration.
C4_InvalidPrimitiveSkipped ==
    [][AtInvalidPrimitive =>
          /\ A' = A
          /\ calls' = calls
          /\ Len(out') > Len(out) /\ out'[Len(out')] = InvalidMessage
          /\ pc' = "for" /\ ii' = ii + 1 /\ Components' = Components]_vars

\* a primitive was skipped with the warning and a later line was projected
C4_Witness ==
    /\ \E m \in 1..Len(out) : out[m] = InvalidMessage
    /\ \E n \in 1..Len(calls) :
          /\ calls[n].src > 1
          /\ file[calls[n].src - 1] = BadLine
          /\ A # Zeros(g)

\* C9: the kernel is called on the records in file order, each record at
\* most once.
C9_EachDescriptorOnce ==
    \A m, n \in 1..Len(calls) : m < n => calls[m].src < calls[n].src

\* ------------------------------------------------------------------------
\* Properties of buildSino3D_core_single (specification SpecKernel)
\* ------------------------------------------------------------------------

\* the primitive of the last call
Last == model[step]

Cells == DOMAIN A

\* the row values of the last call at the cell idx, had row i been computed
\* from the i-th angle
RowAtOwnAngle(idx) ==
    RowVars(g, Last, lastu, SliceOf(g, idx), AnglesRad(g, AngleOf(g, idx)))

\* C2: processing the model {A, B} on a zeroed buffer leaves in every cell
\* the sum of what A alone and B alone leave in it on zeroed buffers.
C2_Superposition ==
    (step = 2 /\ Len(model) = 2) =>
        \A idx \in Cells : A[idx] = FAdd(solo[1][idx], solo[2][idx])

\* C3: for every shape, the value added to cell (k, i, j) is the line
\* integral of the primitive at the i-th input angle and the j-th detector
\* offset.
C3_AngleOrderPreserved ==
    (step >= 1 /\ KnownObject(Last)) =>
        \A idx \in Cells :
            A[idx] = IF SliceActive(g, Last, SliceOf(g, idx))
                     THEN CellWith(prev[idx], g, Last, RowAtOwnAngle(idx), DetOf(g, idx))
                     ELSE prev[idx]

\* C6: the disk and parabola kernels leave unchanged every cell whose
\* normalized squared distance AA6 is at least 1, and every argument the
\* disk kernel hands to sqrtf is positive.
C6_BoundaryContainment ==
    (step >= 1 /\ Last.Object \in {2, 3, 4}) =>
        /\ \A idx \in Cells :
              IF SliceActive(g, Last, SliceOf(g, idx))
              THEN FGe(AA6(g, RowAtOwnAngle(idx), DetOf(g, idx)), FQ) => A[idx] = prev[idx]
              ELSE A[idx] = prev[idx]
        /\ \A x \in obs.sqrtArgs : IsFinite(x) /\ x > 0

\* a disk was projected: some cell of a slice it intersects lies outside
\* its support, some cell was changed, and sqrtf was called
C6_Witness ==
    /\ step >= 1 /\ Last.Object = 3
    /\ \E idx \in Cells :
          /\ SliceActive(g, Last, SliceOf(g, idx))
          /\ FGe(AA6(g, RowAtOwnAngle(idx), DetOf(g, idx)), FQ)
    /\ \E idx \in Cells : A[idx] # prev[idx]
    /\ obs.sqrtArgs # {}

\* the cells of the last call that an unrotated rectangle fills from the
\* angle 0: in a slice inside the slab, in a row computed from an angle of 0
FlatTopCells ==
    {idx \in Cells :
        /\ SliceActive(g, Last, SliceOf(g, idx))
        /\ AnglesRad(g, AngleIndex(g, Last, AngleOf(g, idx))) = 0}

\* distance of the detector offset of cell idx from the projected centre of
\* an unrotated rectangle at the angle 0
FlatTopDistance(idx) == FAbs(FSub(Sinorange_P_Ar(g, DetOf(g, idx)), y11(g, Last)))

FlatTopCase == step >= 1 /\ Last.Object = 6 /\ Last.psi_gr1 = 0

HalfStepX == FSub(H_x(g), FMul(FQ \div 2, H_x(g)))

\* the shift of the projected centre of row i between the two conventions
CenterShift(i) ==
    FSub(obs.under[0].center[i], obs.under[1].center[i])

\* the shift that moving the centre by half a spatial step produces at the
\* angle of row i: (H_x/2)(sin - cos), for the rectangle (H_x/2)(sin + cos)
ExpectedShift(i) ==
    LET th == AnglesRad(g, AngleIndex(g, Last, i))
    IN IF Last.Object = 6
       THEN LET ksi == IF FGt(th, M_PI) THEN FSub(th, M_PI) ELSE th
            IN FMul(HalfStepX, FAdd(FSin(ksi), FCos(ksi)))
       ELSE FMul(HalfStepX, FSub(FSin(th), FCos(th)))

Rows == 0..(AngTot(g) - 1)

\* C8 as stated: the convention leaves the grid arrays unchanged and moves
\* the projected centre by half a detector step H_p/2 at every angle.
C8_ShiftHalfDetectorStep ==
    (step >= 1 /\ KnownObject(Last)) =>
        /\ obs.under[0].grids = obs.under[1].grids
        /\ \A i \in Rows : FAbs(CenterShift(i)) = FMul(FQ \div 2, H_p(g))

\* C8 amended: the convention leaves the grid arrays unchanged and moves
\* both centre coordinates that the kernel projects by half a spatial step
\* H_x/2; the projected centre of a row moves by that half step times
\* (sin - cos) of the row's angle (rectangle: sin + cos), up to rounding.
C8_ConventionShift ==
    (step >= 1 /\ KnownObject(Last)) =>
        /\ obs.under[0].grids = obs.under[1].grids
        /\ \A n \in 1..2 :
              FSub(obs.under[0].used[n], obs.under[1].used[n]) = HalfStepX
        /\ \A i \in Rows : FAbs(FSub(CenterShift(i), ExpectedShift(i))) <= 2

\* a known shape was projected on a grid with H_p = H_x, with a row whose
\* projected centre the convention does not move by H_p/2 and two rows whose
\* projected centres it moves by different distances
C8_Witness ==
    /\ step >= 1 /\ KnownObject(Last) /\ g.P = g.N + 1
    /\ \E i \in Rows : FAbs(CenterShift(i)) # FMul(FQ \div 2, H_p(g))
    /\ \E i, n \in Rows : FAbs(CenterShift(i)) # FAbs(CenterShift(n))

\* slice k lies farther from the centre z0 than the extent c
OutsideExtent(gr, pr, k) == FGt(FAbs(Zdel(gr, pr, k)), pr.c)

\* C10: every kernel leaves unchanged all cells of a slice whose distance
\* from z0 exceeds the extent c of the primitive.
C10_SlicePrune ==
    (step >= 1 /\ KnownObject(Last)) =>
        \A idx \in Cells :
            OutsideExtent(g, Last, SliceOf(g, idx)) => A[idx] = prev[idx]

\* ------------------------------------------------------------------------
\* Properties of the parallel k-loop (specification SpecPar)
\* ------------------------------------------------------------------------

\* C5: no cell of A is written by two workers, no scratch variable written
\* by one worker is read or written by another, and after the loop A is what
\* the sequential loop leaves.
C5_WorkersDisjoint ==
    pc = "parallel" =>
        /\ \A x, y \in log.cells : x[2] = y[2] => x[1] = y[1]
        /\ \A x \in log.wrote : \A y \in log.wrote \cup log.read : x[2] = y[2] => x[1] = y[1]
        /\ step = 1 => A = buildSino3D_core_single(prev, g, model[1], lastu)

\* the loop has ended after two workers each wrote cells of A and scratch
\* variables
C5_Witness ==
    /\ pc = "parallel" /\ step = 1 /\ A # prev
    /\ \A w \in Workers :
          /\ \E x \in log.cells : x[1] = w
          /\ \E x \in log.wrote : x[1] = w /\ x[2][2] = "AA2"

\* ------------------------------------------------------------------------
\* Properties of buildSino3D_core when the file cannot be opened
\* (specification Spec)
\* ------------------------------------------------------------------------

\* C13: when the parameters file cannot be opened, no stdio call is made on
\* the null stream, the buffer stays as it was and the process does not
\* die.
C13_OpenFailureReturns ==
    ~exists => /\ nullops = <<>>
               /\ pc # "crashed"
               /\ A = Zeros(g)

\* ------------------------------------------------------------------------
\* Properties of the scratch storage of buildSino3D_core_single
\* (specification SpecKernel)
\* ------------------------------------------------------------------------

\* C14: after any sequence of kernel invocations none of the five scratch
\* arrays of any invocation is still allocated.
C14_NoLiveAllocations == heap = {}

\* C15: no contribution depends on a value that was never assigned: whatever
\* the unassigned scratch variables hold when the kernel starts, the call
\* leaves the same buffer.
C15_AssignedBeforeRead ==
    (step >= 1 /\ KnownObject(Last)) =>
        \A u \in Uninit(Last) : buildSino3D_core_single(prev, g, Last, u) = A

\* ------------------------------------------------------------------------
\* Properties of the slice modulation (specification SpecKernel)
\* ------------------------------------------------------------------------

\* The two size parameters and the intensity that the kernel of pr.Object
\* uses in slice k: a1, b1 and C00 where the kernel sets them; a1, b1 as
\* found and C0 for Object 1; a22, b22 and C0 for the disk; ywid, xwid and
\* C0 for the rectangle.
EffectiveShape(gr, pr, u, k) ==
    CASE pr.Object = 1 -> [a |-> u.a1, b |-> u.b1, C0 |-> pr.C0]
      [] pr.Object \in {2, 4, 5} ->
           [a |-> SliceVars(gr, pr, u, k).a1, b |-> SliceVars(gr, pr, u, k).b1,
            C0 |-> SliceVars(gr, pr, u, k).C00]
      [] pr.Object = 3 ->
           [a |-> SliceVars(gr, pr, u, k).a1, b |-> SliceVars(gr, pr, u, k).b1,
            C0 |-> pr.C0]
      [] OTHER -> [a |-> pr.a, b |-> pr.b, C0 |-> pr.C0]

\* the same three values of the primitive itself, in the convention of the
\* kernel: the disk works with the squares a*a and b*b
BaseShape(pr) ==
    IF pr.Object = 3
    THEN [a |-> FMul(pr.a, pr.a), b |-> FMul(pr.b, pr.b), C0 |-> pr.C0]
    ELSE [a |-> pr.a, b |-> pr.b, C0 |-> pr.C0]

\* (1 - (distance/c)^2)^2 for slice k
ShrinkStated(gr, pr, k) == FPow2(FSub(FQ, FPow2(FDiv(Zdel(gr, pr, k), pr.c))))

\* the slices the kernel projects that lie within the extent c
ModulatedSlices ==
    {k \in 0..(g.N - 1) : SliceActive(g, Last, k) /\ FLe(FAbs(Zdel(g, Last, k)), Last.c)}

\* C11: in every slice within the extent, each kernel uses a, b and the
\* intensity of the primitive multiplied by (1 - (distance/c)^2)^2.
C11_SliceModulation ==
    (step >= 1 /\ KnownObject(Last)) =>
        \A k \in ModulatedSlices :
            EffectiveShape(g, Last, lastu, k) =
                [x \in {"a", "b", "C0"} |-> FMul(BaseShape(Last)[x], ShrinkStated(g, Last, k))]

\* ------------------------------------------------------------------------
\* Properties of the special cases of the rectangle (specification SpecKernel)
\* ------------------------------------------------------------------------

\* the cells of the slices the rectangle of the last call is projected to
RectCells == {idx \in Cells : SliceActive(g, Last, SliceOf(g, idx))}

\* the values of the rectangle kernel of the last call at the cell idx
RectAt(idx) ==
    RectVars(g, Last, AnglesRad(g, AngleIndex(g, Last, AngleOf(g, idx))), DetOf(g, idx))

\* C12: in the rectangle kernel, no division by cos(FI) is evaluated where
\* |cos(FI)| <= EPS, none by sin(FI) where |sin(FI)| <= EPS, and where either
\* holds the value the special case chose is the value added to the cell.
C12_RectSpecialCases ==
    (step >= 1 /\ Last.Object = 6) =>
        \A idx \in RectCells :
            \A rv \in {RectAt(idx)} :
                /\ rv.nearCF => ~rv.divCF
                /\ rv.nearSF => ~rv.divSF
                /\ (rv.nearCF \/ rv.nearSF) =>
                       A[idx] = FAdd(prev[idx], FMul(HalfN(g), rv.SS2))

===========================================================================
